---- MODULE Spec2Model ----
(***************************************************************************)
(* FlashRAG: the semantic cache and the query pipeline.                    *)
(*                                                                         *)
(* One server process.  The HTTP layer owns one FlashRAGPipeline           *)
(* (web_server.py:26); every BatchProcessor constructs a pipeline of its   *)
(* own (batch_processor.py:13).  All SemanticCache objects open the same   *)
(* persistent collection "query_cache" (semantic_cache.py:12-21), so the   *)
(* cache store is one shared variable, while the commit lock is a field    *)
(* of each pipeline object (pipeline.py:18).                               *)
(*                                                                         *)
(* Similarities and distances are in hundredths: embeddings are integer    *)
(* vectors of norm 10, so their dot product is the cosine times 100.       *)
(***************************************************************************)
EXTENDS Integers, Sequences, FiniteSets, TLC

\* ---------------------------------------------------------------- bounds
\* Number of query executions (calls of query / query_stream) in a run.
NumQueries == 2
\* Largest number of fragments the language model produces for one answer.
MaxChunks == 2

\* ------------------------------------------------------ program constants
CACHE_SIMILARITY_THRESHOLD == 90
TOP_K_RETRIEVAL == 10
TOP_K_RERANK == 3

\* ----------------------------------------------------------------- inputs
QueryIds == 1..NumQueries
\* Questions submitted in a run: the empty string, and "qa", whose similarity
\* to the stored question "qb" is exactly the threshold.
Questions == {"", "qa"}
\* Every text the embedding table knows (the lookup specification also uses "qc").
Texts == {"", "qa", "qb", "qc"}
\* The k-th fragment of an answer of the language model.
Fragment(k) == k
\* The pipeline objects of the process: the HTTP layer's and a BatchProcessor's.
Pipelines == {"web", "batch"}
Modes == {"query", "stream"}

None == [kind |-> "none"]

\* ------------------------------------------------- embeddings and indexes
\* EmbeddingGenerator.embed_query: a deterministic table from text to a
\* normalised vector (all-MiniLM-L6-v2 ends in a normalisation layer).
embed_query(text) ==
    CASE text = ""   -> <<10, 0, 0, 0>>
      [] text = "qa" -> <<0, 0, 6, 8>>
      [] text = "qb" -> <<1, 3, 3, 9>>
      [] text = "qc" -> <<2, 4, 4, 8>>
      [] text = "d1" -> <<0, 0, 8, 6>>
      [] text = "d2" -> <<0, 0, 10, 0>>
      [] text = "d3" -> <<0, 0, 0, 10>>
      [] text = "d4" -> <<0, 10, 0, 0>>

Dot(u, v) == u[1] * v[1] + u[2] * v[2] + u[3] * v[3] + u[4] * v[4]

\* The collections are created with "hnsw:space": "cosine": the distance of
\* two stored vectors is 1 - cosine.
CosineDistance(u, v) == 100 - Dot(u, v)

\* collection.query(query_embeddings=[v], n_results=1) on the cache
\* collection: the positions of the entries at the smallest distance (the
\* index may return any one of several equally near entries).
NearestIds(store, v) ==
    {i \in 1..Len(store) :
        \A j \in 1..Len(store) :
            CosineDistance(store[i].embedding, v) <= CosineDistance(store[j].embedding, v)}

\* Mutant: the distance itself is taken for the similarity.
Similarity_Distance(distance) == distance

\* similarity = 1 - results['distances'][0][0]
Similarity(distance) == 100 - distance

\* Mutant: a strict comparison.
IsHit_Strict(similarity, threshold) == similarity > threshold

\* if similarity >= threshold
IsHit(similarity, threshold) == similarity >= threshold

\* SemanticCache.check_cache once the nearest entry i has been found.
CheckResult(store, v, i, threshold) ==
    LET similarity == Similarity(CosineDistance(store[i].embedding, v))
    IN  IF IsHit(similarity, threshold)
        THEN [kind |-> "hit",
              cached_response |-> store[i].response,
              similarity |-> similarity,
              cached_query |-> store[i].document]
        ELSE None

\* The results check_cache can return for a query on a store when neither
\* the embedding nor the index raises.
check_cache(store, query, threshold) ==
    IF store = <<>>
    THEN {None}
    ELSE {CheckResult(store, embed_query(query), i, threshold) :
             i \in NearestIds(store, embed_query(query))}

\* ids=[f"cache_{self.collection.count()}"]: the id built from a count.
CacheId(count) == count

\* Mutant: an entry for a question already stored is not added.
CollectionAdd_Dedup(store, entry) ==
    IF \E i \in 1..Len(store) : store[i].document = entry.document
    THEN store
    ELSE Append(store, entry)

\* Mutant: an entry for a question already stored replaces the stored one.
CollectionAdd_Upsert(store, entry) ==
    IF \E i \in 1..Len(store) : store[i].document = entry.document
    THEN [i \in 1..Len(store) |->
             IF store[i].document = entry.document THEN entry ELSE store[i]]
    ELSE Append(store, entry)

\* Mutant: a store that holds an entry drops its oldest one for the new one.
CollectionAdd_Evict(store, entry) ==
    IF store = <<>> THEN Append(store, entry) ELSE Append(Tail(store), entry)

\* collection.add: the entry is appended unless its id is already stored
\* (the index refuses a duplicate id; add_to_cache logs and drops it).
CollectionAdd(store, entry) ==
    IF \E i \in 1..Len(store) : store[i].id = entry.id
    THEN store
    ELSE Append(store, entry)

\* Mutant: only the first fragment of the response is stored.
CacheEntry_FirstFragment(id, query, response, docs, by) ==
    [id |-> id,
     embedding |-> embed_query(query),
     document |-> query,
     response |-> SubSeq(response, 1, IF Len(response) < 1 THEN 0 ELSE 1),
     doc_count |-> Len(docs),
     by |-> by]

\* Mutant: the metadata is written without the number of documents.
CacheEntry_NoDocCount(id, query, response, docs, by) ==
    [id |-> id,
     embedding |-> embed_query(query),
     document |-> query,
     response |-> response,
     doc_count |-> 0,
     by |-> by]

\* The entry add_to_cache builds.
CacheEntry(id, query, response, docs, by) ==
    [id |-> id,
     embedding |-> embed_query(query),
     document |-> query,
     response |-> response,
     doc_count |-> Len(docs),
     by |-> by]


\* ------------------------------------------------ retrieval and reranking
\* The documents collection after ingestion (retriever.py:25-46); query
\* serving never writes it.
Corpus == <<"d1", "d2", "d3", "d4">>

\* Stable insertion of record d into a sequence sorted by descending field f.
RECURSIVE InsertDesc(_, _, _)
InsertDesc(sorted, d, f) ==
    IF sorted = <<>> THEN <<d>>
    ELSE IF Head(sorted)[f] >= d[f]
         THEN <<Head(sorted)>> \o InsertDesc(Tail(sorted), d, f)
         ELSE <<d>> \o sorted

\* Mutant: the documents are left in the order given.
SortDesc_Unsorted(documents, f) == documents

\* sorted(documents, key=lambda x: x[f], reverse=True): stable.
RECURSIVE SortDesc(_, _)
SortDesc(documents, f) ==
    IF documents = <<>> THEN <<>>
    ELSE InsertDesc(SortDesc(SubSeq(documents, 1, Len(documents) - 1), f),
                    documents[Len(documents)], f)

TakeFirst(s, k) == SubSeq(s, 1, IF Len(s) < k THEN Len(s) ELSE k)

\* DocumentRetriever.retrieve: the top_k nearest chunks, nearest first, each
\* with score = 1 - distance.
retrieve(corpus, query, top_k) ==
    LET scored == [i \in 1..Len(corpus) |->
                      [id |-> i,
                       text |-> corpus[i],
                       score |-> Similarity(CosineDistance(embed_query(corpus[i]),
                                                           embed_query(query))),
                       rerank_score |-> 0]]
    IN  TakeFirst(SortDesc(scored, "score"), top_k)

\* CrossEncoder.predict on one [query, text] pair: a deterministic score.
CrossEncoderScore(query, text) ==
    CASE text = "d1" -> 2
      [] text = "d2" -> 5
      [] text = "d3" -> 5
      [] text = "d4" -> IF query = "qa" THEN 9 ELSE 1

\* for doc, score in zip(documents, scores): doc['rerank_score'] = float(score)
\* The scores are written into the caller's documents.
ScoreDocuments(query, documents) ==
    [i \in 1..Len(documents) |->
        [documents[i] EXCEPT !.rerank_score = CrossEncoderScore(query, documents[i].text)]]

\* Mutant: no truncation to top_k.
rerank_All(query, documents, top_k) ==
    SortDesc(ScoreDocuments(query, documents), "rerank_score")

\* DocumentReranker.rerank
rerank(query, documents, top_k) ==
    IF documents = <<>> THEN <<>>
    ELSE TakeFirst(SortDesc(ScoreDocuments(query, documents), "rerank_score"), top_k)

\* ------------------------------------------------------- language model
\* The answers LLMClient.generate_response can return: the fragments of a
\* completion, concatenated.
Answers == {[k \in 1..n |-> Fragment(k)] : n \in 0..MaxChunks}

\* ------------------------------------------------------------------ state
VARIABLES
    pc,             \* position of each query execution
    mode,           \* "query" (pipeline.query) or "stream" (pipeline.query_stream)
    pipe,           \* the pipeline object the execution runs on
    question,       \* its question argument
    use_cache,      \* its use_cache argument
    retrieved_docs, \* local: retriever output
    reranked_docs,  \* local: reranker output
    answer,         \* local: answer (query) / full_response (query_stream)
    entry_id,       \* the id add_to_cache built from collection.count(), -1 before
    result,         \* what query returned (None before)
    events,         \* the events query_stream has yielded to its consumer
    stages,         \* history: begin/end marks of the stages run, in order
    fault,          \* history: collaborator failures met by the execution
    lookups,        \* history: number of check_cache calls
    looked,         \* history: what the cache held when check_cache searched it
    closed,         \* history: the consumer closed the stream
    commits,        \* history: number of add_to_cache calls
    cache,          \* the cache collection "query_cache"
    lock,           \* _lock of each pipeline: 0 when free, else the holder
    doc_index,      \* the documents collection
    probe,          \* a direct call of SemanticCache.check_cache (SpecLookup)
    batch,          \* a call of BatchProcessor.process_batch (SpecBatch)
    now,            \* what time.time() returns
    limiter,        \* the RateLimiter object
    metrics,        \* the MetricsCollector object
    threads,        \* threads calling the limiter or the collector directly
    http            \* the /api/query requests, one per call slot

vars == <<pc, mode, pipe, question, use_cache, retrieved_docs, reranked_docs,
          answer, entry_id, result, events, stages, fault, lookups, looked, closed,
          commits, cache, lock, doc_index, probe, batch,
          now, limiter, metrics, threads, http>>

\* The arguments of a call, fixed once it is made.
args == <<mode, pipe, question, use_cache>>
\* What the pipeline's functions never change.
services == <<now, limiter, metrics, threads, http>>
static == <<doc_index, probe, batch, services>>

NotLooked == [count |-> -1, near |-> FALSE]
NoProbe == [query |-> "", threshold |-> 0, returned |-> FALSE, failed |-> FALSE,
            result |-> None]
\* process_batch has not been called.
NoBatch == [state |-> "idle", queries |-> <<>>, use_cache |-> TRUE,
            results |-> <<>>, order |-> <<>>]

\* A cache that earlier processes left on disk: empty, or one entry for "qb".
InitialCaches ==
    {<<>>, <<CacheEntry(CacheId(0), "qb", <<Fragment(1)>>, <<>>, 0)>>}

\* Config.RATE_LIMIT_PER_MINUTE, the max_requests of the server's limiter.
RATE_LIMIT_PER_MINUTE == 60
\* The default window_seconds of RateLimiter.
WINDOW_SECONDS == 60

\* Client addresses.
Clients == {"c1", "c2"}
\* Number of threads that call the limiter or the collector directly.
NumThreads == 3
Threads == 1..NumThreads

\* RateLimiter(max_requests, window_seconds) after __init__.  granted is
\* history: the clock readings of the calls that returned True, per client.
NewLimiter(max_requests, window_seconds) ==
    [max_requests |-> max_requests,
     window_seconds |-> window_seconds,
     requests |-> [c \in Clients |-> <<>>],
     lock |-> 0,
     granted |-> [c \in Clients |-> <<>>]]

\* MetricsCollector() constructed at time t.  ended is history: the number
\* of record_request calls that have returned or raised.
NewMetrics(t) ==
    [total_requests |-> 0, cache_hits |-> 0, cache_misses |-> 0,
     start_time |-> t, lock |-> 0, ended |-> 0]

NoSummary == [kind |-> "none"]

\* A thread that has made no call.
NoThread ==
    [pc |-> "idle", op |-> "none", client |-> "", current_time |-> -1,
     seen |-> <<>>, hit |-> FALSE, allowed |-> FALSE, summary |-> NoSummary]

\* No request has arrived in the slot.
NoRequest == [state |-> "none", client |-> "", status |-> 0, recorded |-> FALSE]

\* The server's module-level objects at a time after start-up, before any
\* request: rate_limiter = RateLimiter(max_requests=RATE_LIMIT_PER_MINUTE),
\* metrics = MetricsCollector() built at time 0.
NoServices ==
    /\ now = 1
    /\ limiter = NewLimiter(RATE_LIMIT_PER_MINUTE, WINDOW_SECONDS)
    /\ metrics = NewMetrics(0)
    /\ threads = [t \in Threads |-> NoThread]
    /\ http = [q \in QueryIds |-> NoRequest]

\* The per-call state before any call is made.
NoCalls ==
    /\ pc = [q \in QueryIds |-> "idle"]
    /\ mode = [q \in QueryIds |-> "query"]
    /\ pipe = [q \in QueryIds |-> "web"]
    /\ question = [q \in QueryIds |-> ""]
    /\ use_cache = [q \in QueryIds |-> TRUE]
    /\ retrieved_docs = [q \in QueryIds |-> <<>>]
    /\ reranked_docs = [q \in QueryIds |-> <<>>]
    /\ answer = [q \in QueryIds |-> <<>>]
    /\ entry_id = [q \in QueryIds |-> -1]
    /\ result = [q \in QueryIds |-> None]
    /\ events = [q \in QueryIds |-> <<>>]
    /\ stages = [q \in QueryIds |-> <<>>]
    /\ fault = [q \in QueryIds |-> {}]
    /\ lookups = [q \in QueryIds |-> 0]
    /\ looked = [q \in QueryIds |-> NotLooked]
    /\ closed = [q \in QueryIds |-> FALSE]
    /\ commits = [q \in QueryIds |-> 0]
    /\ lock = [p \in Pipelines |-> 0]
    /\ batch = NoBatch

Init ==
    /\ NoCalls
    /\ doc_index = Corpus
    /\ cache \in InitialCaches
    /\ probe = NoProbe
    /\ NoServices


\* ------------------------------------------------------ control positions
\* if use_cache: check_cache first; else straight to retrieval.
FirstPc(uc) == IF uc THEN "check" ELSE "retrieve"

\* Mutant: the reranker is called before the retriever.
AfterMissPc_Rerank == "rerank"

\* A miss falls through to retriever.retrieve.
AfterMissPc == "retrieve"

\* Mutant: the function goes to its end without the commit.
AfterGeneratePc_Never(uc) == "return"

\* Mutant: the commit is not guarded by use_cache.
AfterGeneratePc_Always(uc) == "commit"

\* After generation: commit under the lock if use_cache, else return.
AfterGeneratePc(uc) == IF uc THEN "commit" ELSE "return"

\* Mutant: no return after the cache_hit event; the miss path follows it.
AfterTerminalPc_NoReturn(p) == IF p = "yield_hit" THEN "retrieve" ELSE "done"

\* Mutant: the complete event does not end the stream; the content loop goes on.
AfterTerminalPc_Resume(p) == IF p = "yield_complete" THEN "yield_content" ELSE "done"

\* A generator resumed at a terminal yield returns ("return" after the
\* cache_hit event, the end of the function after the complete event).
AfterTerminalPc(p) == "done"

\* Mutant: the commit sits in a finally clause, which a close runs.
AfterClosePc_Finally(uc) == IF uc THEN "commit" ELSE "cancelled"

\* A generator closed at a yield stops there: query_stream has no
\* try/finally, so none of its remaining code runs.
AfterClosePc(uc) == "cancelled"

\* Mutant: the lock is created held and can never be taken.
LockFree_Never(p) == FALSE

\* Mutant: the commit does not wait for the lock.
LockFree_Unchecked(p) == TRUE

\* with self._lock: the lock of pipeline p can be taken.
LockFree(p) == lock[p] = 0

\* Mutant: a stage failure is swallowed and the execution goes on to its commit.
StageFailurePc_Swallow(uc) == IF uc THEN "commit" ELSE "failed"

\* Mutant: a stage failure is caught and the function just returns.
StageFailurePc_Silent(uc) == "done"

\* Mutant: a stage failure is handled as the end of the with block.
StageFailurePc_Release(uc) == "release"

\* retrieve, rerank and generate are called outside any try block of the
\* pipeline: their exception leaves query / query_stream at once.
StageFailurePc(uc) == "failed"

\* Mutant: check_cache lets its exception out.
LookupFailurePc_Raise == "failed"

\* check_cache catches every exception and returns None, which the
\* pipeline takes for a miss.
LookupFailurePc == "retrieve"

\* Mutant: add_to_cache lets its exception out.
AddFailurePc_Raise == "failed"

\* add_to_cache catches every exception and returns: the with block ends.
AddFailurePc == "release"

\* Mutant: a hit does not return; the miss path follows it.
AfterHitPc_FallThrough(m) == "retrieve"

\* A hit returns at once (query) or yields the cache_hit event (query_stream).
AfterHitPc(m) == IF m = "query" THEN "done" ELSE "yield_hit"

\* Mutant: the statement after the commit sits inside the with block, so
\* the lock is still held when it runs.
LockAfterCommit_Kept(holder, add_failed) == holder

\* The end of the with block releases the lock whatever add_to_cache did.
LockAfterCommit(holder, add_failed) == 0

\* Mutant: full_response = chunk.
Accumulate_Overwrite(full_response, chunk) == chunk

\* full_response += chunk
Accumulate(full_response, chunk) == full_response \o chunk

\* Mutant: check_cache is called inside with self._lock.
LookupAllowed_Locked(p) == lock[p] = 0

\* check_cache is called outside the with block: it waits for nothing.
LookupAllowed(p) == TRUE

\* Positions at which a query_stream generator is suspended at a yield.
YieldPcs == {"yield_hit", "yield_retrieval", "yield_content", "yield_complete"}

\* A generator object that has been created and never resumed.
Created(q) ==
    /\ mode[q] = "stream"
    /\ pc[q] = FirstPc(use_cache[q])
    /\ stages[q] = <<>>

Begin(s) == [stage |-> s, at |-> "begin"]
End(s) == [stage |-> s, at |-> "end"]
Mark(s) == <<Begin(s), End(s)>>

Event(type, data, count, done, hit) ==
    [type |-> type, data |-> data, count |-> count, done |-> done, cache_hit |-> hit]

\* Mutant: metrics["cache_hit"] is never set.
QueryResult_NoHitFlag(ans, source, hit, nret, docs, hasdocs) ==
    [kind |-> "result", answer |-> ans, source |-> source, cache_hit |-> FALSE,
     num_retrieved |-> nret, num_reranked |-> Len(docs),
     has_docs |-> hasdocs, retrieved_docs |-> docs]

\* The dictionary query returns.
QueryResult(ans, source, hit, nret, docs, hasdocs) ==
    [kind |-> "result", answer |-> ans, source |-> source, cache_hit |-> hit,
     num_retrieved |-> nret, num_reranked |-> Len(docs),
     has_docs |-> hasdocs, retrieved_docs |-> docs]

\* History: some stored question is within the threshold of the query.
NearExists(store, query, threshold) ==
    \E i \in 1..Len(store) :
        Dot(embed_query(store[i].document), embed_query(query)) >= threshold

\* ---------------------------------------------------------------- actions
\* Slot q is unused, and the slots before it are in use.
Unused(q) ==
    /\ pc[q] = "idle"
    /\ IF q = 1 THEN TRUE ELSE pc[q - 1] # "idle"

\* A call of pipeline.query / pipeline.query_stream: the arguments are
\* bound and nothing else has run (a generator function runs no code until
\* it is first resumed).
Call(q, m, p, text, uc) ==
    /\ pc' = [pc EXCEPT ![q] = FirstPc(uc)]
    /\ mode' = [mode EXCEPT ![q] = m]
    /\ pipe' = [pipe EXCEPT ![q] = p]
    /\ question' = [question EXCEPT ![q] = text]
    /\ use_cache' = [use_cache EXCEPT ![q] = uc]
    /\ UNCHANGED <<retrieved_docs, reranked_docs, answer, entry_id, result, events,
                   stages, fault, lookups, looked, closed, commits, cache, lock, static>>

\* POST /api/query: the module-level pipeline, streaming or not.
ApiQuery(q) ==
    /\ Unused(q)
    /\ \E text \in Questions, uc \in BOOLEAN, stream \in BOOLEAN :
          Call(q, IF stream THEN "stream" ELSE "query", "web", text, uc)

\* POST /api/batch: BatchProcessor.process_batch submits pipeline.query on
\* the batch processor's own pipeline.
ApiBatch(q) ==
    /\ Unused(q)
    /\ \E text \in Questions, uc \in BOOLEAN :
          Call(q, "query", "batch", text, uc)

\* cached_result = self.cache.check_cache(question), and the hit branch.
\* An embedding or index failure inside check_cache is caught: it returns None.
CheckCache(q) ==
    /\ pc[q] = "check"
    /\ LookupAllowed(pipe[q])
    /\ lookups' = [lookups EXCEPT ![q] = @ + 1]
    /\ looked' = [looked EXCEPT ![q] =
           [count |-> Len(cache),
            near |-> NearExists(cache, question[q], CACHE_SIMILARITY_THRESHOLD)]]
    /\ stages' = [stages EXCEPT ![q] = @ \o Mark("CACHE_CHECK")]
    /\ \E failed \in BOOLEAN :
       \E cached_result \in IF failed THEN {None}
                            ELSE check_cache(cache, question[q], CACHE_SIMILARITY_THRESHOLD) :
          /\ fault' = [fault EXCEPT ![q] = IF failed THEN @ \cup {"lookup"} ELSE @]
          /\ IF cached_result # None
             THEN IF mode[q] = "query"
                  THEN /\ result' = [result EXCEPT ![q] =
                              QueryResult(cached_result.cached_response, "cache", TRUE,
                                          0, <<>>, FALSE)]
                       /\ pc' = [pc EXCEPT ![q] = AfterHitPc(mode[q])]
                       /\ UNCHANGED events
                  ELSE /\ events' = [events EXCEPT ![q] =
                              Append(@, Event("cache_hit", cached_result.cached_response,
                                              0, TRUE, TRUE))]
                       /\ pc' = [pc EXCEPT ![q] = AfterHitPc(mode[q])]
                       /\ UNCHANGED result
             ELSE /\ pc' = [pc EXCEPT ![q] =
                             IF failed THEN LookupFailurePc ELSE AfterMissPc]
                  /\ UNCHANGED <<result, events>>
    /\ UNCHANGED <<args, retrieved_docs, reranked_docs, answer, entry_id, closed,
                   commits, cache, lock, static>>

\* retrieved_docs = self.retriever.retrieve(question); a failure propagates.
Retrieve(q) ==
    /\ pc[q] = "retrieve"
    /\ stages' = [stages EXCEPT ![q] = @ \o Mark("RETRIEVE")]
    /\ \E failed \in BOOLEAN :
          IF failed
          THEN /\ fault' = [fault EXCEPT ![q] = @ \cup {"retrieve"}]
               /\ pc' = [pc EXCEPT ![q] = StageFailurePc(use_cache[q])]
               /\ UNCHANGED retrieved_docs
          ELSE /\ retrieved_docs' = [retrieved_docs EXCEPT ![q] =
                      retrieve(doc_index, question[q], TOP_K_RETRIEVAL)]
               /\ pc' = [pc EXCEPT ![q] = "rerank"]
               /\ UNCHANGED fault
    /\ UNCHANGED <<args, reranked_docs, answer, entry_id, result, events, lookups,
                   looked, closed, commits, cache, lock, static>>

\* reranked_docs = self.reranker.rerank(question, retrieved_docs); in
\* query_stream the retrieval_complete event is yielded next.
Rerank(q) ==
    /\ pc[q] = "rerank"
    /\ stages' = [stages EXCEPT ![q] = @ \o Mark("RERANK")]
    /\ \E failed \in BOOLEAN :
          IF failed
          THEN /\ fault' = [fault EXCEPT ![q] = @ \cup {"rerank"}]
               /\ pc' = [pc EXCEPT ![q] = StageFailurePc(use_cache[q])]
               /\ UNCHANGED <<retrieved_docs, reranked_docs, events>>
          ELSE LET docs == rerank(question[q], retrieved_docs[q], TOP_K_RERANK)
               IN  /\ reranked_docs' = [reranked_docs EXCEPT ![q] = docs]
                   /\ retrieved_docs' = [retrieved_docs EXCEPT ![q] =
                          ScoreDocuments(question[q], @)]
                   /\ IF mode[q] = "query"
                      THEN /\ pc' = [pc EXCEPT ![q] = "generate"]
                           /\ UNCHANGED events
                      ELSE /\ events' = [events EXCEPT ![q] =
                                  Append(@, Event("retrieval_complete", <<>>, Len(docs),
                                                  FALSE, FALSE))]
                           /\ pc' = [pc EXCEPT ![q] = "yield_retrieval"]
                   /\ UNCHANGED fault
    /\ UNCHANGED <<args, answer, entry_id, result, lookups, looked,
                   closed, commits, cache, lock, static>>

\* The end of both functions: query returns its dictionary; query_stream
\* yields the complete event.
Return(q, ans) ==
    IF mode[q] = "query"
    THEN /\ result' = [result EXCEPT ![q] =
                QueryResult(ans, "llm", FALSE, Len(retrieved_docs[q]),
                            reranked_docs[q], TRUE)]
         /\ pc' = [pc EXCEPT ![q] = "done"]
         /\ UNCHANGED events
    ELSE /\ events' = [events EXCEPT ![q] = Append(@, Event("complete", <<>>, 0, TRUE, FALSE))]
         /\ pc' = [pc EXCEPT ![q] = "yield_complete"]
         /\ UNCHANGED result

\* answer = self.llm.generate_response(question, reranked_docs): blocking,
\* the whole answer; a failure is logged and raised again.
Generate(q) ==
    /\ pc[q] = "generate"
    /\ mode[q] = "query"
    /\ stages' = [stages EXCEPT ![q] = @ \o Mark("GENERATE")]
    /\ \/ /\ fault' = [fault EXCEPT ![q] = @ \cup {"generate"}]
          /\ pc' = [pc EXCEPT ![q] = StageFailurePc(use_cache[q])]
          /\ UNCHANGED <<answer, result, events>>
       \/ \E a \in Answers :
             /\ answer' = [answer EXCEPT ![q] = a]
             /\ IF AfterGeneratePc(use_cache[q]) = "commit"
                THEN /\ pc' = [pc EXCEPT ![q] = "commit"]
                     /\ UNCHANGED <<result, events>>
                ELSE Return(q, a)
             /\ UNCHANGED fault
    /\ UNCHANGED <<args, retrieved_docs, reranked_docs, entry_id, lookups, looked,
                   closed, commits, cache, lock, static>>

\* The consumer resumes the generator inside the loop
\*   for chunk in self.llm.generate_response_stream(...): full_response += chunk; yield
\* The language model's stream yields one more fragment, ends, or raises.
GenerateStream(q) ==
    /\ pc[q] \in {"yield_retrieval", "yield_content"}
    /\ mode[q] = "stream"
    /\ LET opened == IF pc[q] = "yield_retrieval" THEN <<Begin("GENERATE")>> ELSE <<>>
       IN  \/ /\ fault' = [fault EXCEPT ![q] = @ \cup {"generate"}]
              /\ pc' = [pc EXCEPT ![q] = StageFailurePc(use_cache[q])]
              /\ stages' = [stages EXCEPT ![q] = @ \o opened \o <<End("GENERATE")>>]
              /\ UNCHANGED <<answer, result, events>>
           \/ /\ Len(answer[q]) < MaxChunks
              /\ LET chunk == <<Fragment(Len(answer[q]) + 1)>>
                 IN  /\ answer' = [answer EXCEPT ![q] = Accumulate(@, chunk)]
                     /\ events' = [events EXCEPT ![q] =
                            Append(@, Event("content", chunk, 0, FALSE, FALSE))]
              /\ pc' = [pc EXCEPT ![q] = "yield_content"]
              /\ stages' = [stages EXCEPT ![q] = @ \o opened]
              /\ UNCHANGED <<fault, result>>
           \/ /\ stages' = [stages EXCEPT ![q] = @ \o opened \o <<End("GENERATE")>>]
              /\ IF AfterGeneratePc(use_cache[q]) = "commit"
                 THEN /\ pc' = [pc EXCEPT ![q] = "commit"]
                      /\ UNCHANGED <<result, events>>
                 ELSE Return(q, answer[q])
              /\ UNCHANGED <<fault, answer>>
    /\ UNCHANGED <<args, retrieved_docs, reranked_docs, entry_id, lookups, looked,
                   closed, commits, cache, lock, static>>

\* with self._lock: blocks until the pipeline's lock is free, then calls
\* self.cache.add_to_cache(...).
AcquireLock(q) ==
    /\ pc[q] = "commit"
    /\ LockFree(pipe[q])
    /\ lock' = [lock EXCEPT ![pipe[q]] = q]
    /\ commits' = [commits EXCEPT ![q] = @ + 1]
    /\ stages' = [stages EXCEPT ![q] = Append(@, Begin("CACHE_COMMIT"))]
    /\ pc' = [pc EXCEPT ![q] = "add_count"]
    /\ UNCHANGED <<args, retrieved_docs, reranked_docs, answer, entry_id, result,
                   events, fault, lookups, looked, closed, cache, static>>

\* add_to_cache, first half: embed the query and evaluate
\* f"cache_{self.collection.count()}".  A failure is logged and swallowed.
AddToCacheCount(q) ==
    /\ pc[q] = "add_count"
    /\ \/ /\ fault' = [fault EXCEPT ![q] = @ \cup {"add"}]
          /\ pc' = [pc EXCEPT ![q] = AddFailurePc]
          /\ UNCHANGED entry_id
       \/ /\ entry_id' = [entry_id EXCEPT ![q] = CacheId(Len(cache))]
          /\ pc' = [pc EXCEPT ![q] = "add_insert"]
          /\ UNCHANGED fault
    /\ UNCHANGED <<args, retrieved_docs, reranked_docs, answer, result, events, stages,
                   lookups, looked, closed, commits, cache, lock, static>>

\* add_to_cache, second half: self.collection.add(...).  A failure is
\* logged and swallowed.
AddToCacheInsert(q) ==
    /\ pc[q] = "add_insert"
    /\ \/ /\ fault' = [fault EXCEPT ![q] = @ \cup {"add"}]
          /\ pc' = [pc EXCEPT ![q] = AddFailurePc]
          /\ UNCHANGED cache
       \/ /\ cache' = CollectionAdd(cache,
                          CacheEntry(entry_id[q], question[q], answer[q],
                                     reranked_docs[q], q))
          /\ pc' = [pc EXCEPT ![q] = "release"]
          /\ UNCHANGED fault
    /\ UNCHANGED <<args, retrieved_docs, reranked_docs, answer, entry_id, result,
                   events, stages, lookups, looked, closed, commits, lock, static>>

\* The with block ends: the lock is released, then the function returns
\* (query) or yields the complete event (query_stream).
ReleaseLock(q) ==
    /\ pc[q] = "release"
    /\ lock' = [lock EXCEPT ![pipe[q]] = LockAfterCommit(q, "add" \in fault[q])]
    /\ stages' = [stages EXCEPT ![q] = Append(@, End("CACHE_COMMIT"))]
    /\ Return(q, answer[q])
    /\ UNCHANGED <<args, retrieved_docs, reranked_docs, answer, entry_id, fault,
                   lookups, looked, closed, commits, cache, static>>

\* The consumer resumes a generator suspended at a terminal yield: the
\* generator returns and the iteration ends.
StreamEnd(q) ==
    /\ pc[q] \in {"yield_hit", "yield_complete"}
    /\ pc' = [pc EXCEPT ![q] = AfterTerminalPc(pc[q])]
    /\ UNCHANGED <<args, retrieved_docs, reranked_docs, answer, entry_id, result,
                   events, stages, fault, lookups, looked, closed, commits, cache,
                   lock, static>>

\* The consumer stops consuming: the generator is closed (or collected)
\* where it is suspended.
Close(q) ==
    /\ Created(q) \/ pc[q] \in YieldPcs
    /\ mode[q] = "stream"
    /\ closed' = [closed EXCEPT ![q] = TRUE]
    /\ pc' = [pc EXCEPT ![q] = AfterClosePc(use_cache[q])]
    /\ UNCHANGED <<args, retrieved_docs, reranked_docs, answer, entry_id, result,
                   events, stages, fault, lookups, looked, commits, cache, lock,
                   static>>

Next ==
    \E q \in QueryIds :
        \/ ApiQuery(q)
        \/ ApiBatch(q)
        \/ CheckCache(q)
        \/ Retrieve(q)
        \/ Rerank(q)
        \/ Generate(q)
        \/ GenerateStream(q)
        \/ AcquireLock(q)
        \/ AddToCacheCount(q)
        \/ AddToCacheInsert(q)
        \/ ReleaseLock(q)
        \/ StreamEnd(q)
        \/ Close(q)

Spec == Init /\ [][Next]_vars

\* Fair scheduling of the commit: a thread that can take the lock of its
\* pipeline, or is inside the with block, is eventually run.  (Everything
\* before the commit depends on collaborators and on the stream's consumer,
\* and is not assumed to progress.)
CommitFairness ==
    \A q \in QueryIds :
        /\ WF_vars(AcquireLock(q))
        /\ WF_vars(AddToCacheCount(q))
        /\ WF_vars(AddToCacheInsert(q))
        /\ WF_vars(ReleaseLock(q))

SpecFair == Init /\ [][Next]_vars /\ CommitFairness

\* ------------------------------------------- check_cache called directly
\* Largest number of entries in the store of a direct check_cache call.
MaxStore == 2

\* Thresholds passed to check_cache: the default, and values around the
\* similarities the stored questions have.
Thresholds == {88, CACHE_SIMILARITY_THRESHOLD, 98, 100}

RECURSIVE StoresOf(_)
StoresOf(n) ==
    IF n = 0 THEN {<<>>}
    ELSE LET shorter == StoresOf(n - 1)
         IN  shorter \cup
             {Append(st, CacheEntry(CacheId(Len(st)), text, <<Fragment(1)>>, <<>>, 0)) :
                 st \in {x \in shorter : Len(x) = n - 1}, text \in Texts}

InitLookup ==
    /\ NoCalls
    /\ doc_index = Corpus
    /\ cache \in StoresOf(MaxStore)
    /\ \E text \in Texts, threshold \in Thresholds :
          probe = [NoProbe EXCEPT !.query = text, !.threshold = threshold]
    /\ NoServices

\* SemanticCache.check_cache(query, threshold), called directly.
LookupCall ==
    /\ ~probe.returned
    /\ \E failed \in BOOLEAN :
       \E r \in IF failed THEN {None}
                ELSE check_cache(cache, probe.query, probe.threshold) :
          probe' = [probe EXCEPT !.returned = TRUE, !.failed = failed, !.result = r]
    /\ UNCHANGED <<pc, args, retrieved_docs, reranked_docs, answer, entry_id, result,
                   events, stages, fault, lookups, looked, closed, commits, cache,
                   lock, doc_index, batch, services>>

NextLookup == LookupCall

SpecLookup == InitLookup /\ [][NextLookup]_vars

\* ------------------------------------------ one call over small indexes
\* Largest number of chunks in the documents collection.
MaxDocs == 4

\* Chunk texts: two with fixed scores and one whose score depends on the query.
DocTexts == {"d1", "d2", "d4"}

\* The documents collections an ingestion can leave: any chunks, also none.
CorporaOf(n) == UNION {[1..k -> DocTexts] : k \in 0..n}

InitCorpus ==
    /\ NoCalls
    /\ doc_index \in CorporaOf(MaxDocs)
    /\ cache \in InitialCaches
    /\ probe = NoProbe
    /\ NoServices

\* One call of query / query_stream, alone in the process.
NextCorpus ==
    \/ ApiQuery(1)
    \/ ApiBatch(1)
    \/ CheckCache(1)
    \/ Retrieve(1)
    \/ Rerank(1)
    \/ Generate(1)
    \/ GenerateStream(1)
    \/ AcquireLock(1)
    \/ AddToCacheCount(1)
    \/ AddToCacheInsert(1)
    \/ ReleaseLock(1)
    \/ StreamEnd(1)
    \/ Close(1)

SpecCorpus == InitCorpus /\ [][NextCorpus]_vars

\* --------------------------------------------- BatchProcessor.process_batch
\* Config.MAX_WORKERS: the threads of the batch's ThreadPoolExecutor.
MAX_WORKERS == 4

\* The future of slot q is completed: its call returned or raised.
Finished(q) == pc[q] \in {"done", "failed"}

\* A worker thread is inside the call of slot q.
Working(q) == pc[q] \notin {"idle", "queued", "done", "failed", "cancelled"}

\* result['query'] = query: the dictionary query returned, with one more key.
WithQuery(res, query) ==
    [k \in DOMAIN res \cup {"query"} |-> IF k = "query" THEN query ELSE res[k]]

\* The record appended for a future whose call raised.
ErrorRecord(query) ==
    [kind |-> "error", query |-> query, error |-> "raised", answer |-> None]

\* Mutant: the except clause logs the error and appends nothing.
CollectFailure_Skip(results, query) == results

\* except Exception as e: results.append({"query", "error", "answer": None}).
CollectFailure(results, query) == Append(results, ErrorRecord(query))

\* process_batch(queries, use_cache): every query is submitted to the
\* executor as self.pipeline.query(query, use_cache) before any result is
\* collected.  A submitted call waits in the executor's queue.
SubmitBatch ==
    /\ batch.state = "idle"
    /\ \A q \in QueryIds : pc[q] = "idle"
    /\ \E queries \in UNION {[1..n -> Questions] : n \in 0..NumQueries}, uc \in BOOLEAN :
          LET submitted == 1..Len(queries)
          IN  /\ batch' = [state |-> "running", queries |-> queries, use_cache |-> uc,
                           results |-> <<>>, order |-> <<>>]
              /\ pc' = [q \in QueryIds |-> IF q \in submitted THEN "queued" ELSE pc[q]]
              /\ mode' = [q \in QueryIds |-> IF q \in submitted THEN "query" ELSE mode[q]]
              /\ pipe' = [q \in QueryIds |-> IF q \in submitted THEN "batch" ELSE pipe[q]]
              /\ question' = [q \in QueryIds |->
                                 IF q \in submitted THEN queries[q] ELSE question[q]]
              /\ use_cache' = [q \in QueryIds |->
                                  IF q \in submitted THEN uc ELSE use_cache[q]]
    /\ UNCHANGED <<retrieved_docs, reranked_docs, answer, entry_id, result, events,
                   stages, fault, lookups, looked, closed, commits, cache, lock,
                   doc_index, probe, services>>

\* A free thread of the pool takes a queued call and enters pipeline.query.
StartWorker(q) ==
    /\ pc[q] = "queued"
    /\ Cardinality({r \in QueryIds : Working(r)}) < MAX_WORKERS
    /\ pc' = [pc EXCEPT ![q] = FirstPc(use_cache[q])]
    /\ UNCHANGED <<args, retrieved_docs, reranked_docs, answer, entry_id, result,
                   events, stages, fault, lookups, looked, closed, commits, cache,
                   lock, static>>

\* One turn of "for future in as_completed(future_to_query)": a completed
\* future not yet seen is taken; future.result() returns the call's
\* dictionary or raises what the call raised.
Collect(q) ==
    /\ batch.state = "running"
    /\ q \in 1..Len(batch.queries)
    /\ \A i \in 1..Len(batch.order) : batch.order[i] # q
    /\ Finished(q)
    /\ batch' = [batch EXCEPT
           !.results = IF pc[q] = "failed"
                       THEN CollectFailure(@, batch.queries[q])
                       ELSE Append(@, WithQuery(result[q], batch.queries[q])),
           !.order = Append(@, q)]
    /\ UNCHANGED <<pc, args, retrieved_docs, reranked_docs, answer, entry_id, result,
                   events, stages, fault, lookups, looked, closed, commits, cache,
                   lock, doc_index, probe, services>>

\* as_completed has yielded every future: return results.
ReturnBatch ==
    /\ batch.state = "running"
    /\ Len(batch.order) = Len(batch.queries)
    /\ batch' = [batch EXCEPT !.state = "returned"]
    /\ UNCHANGED <<pc, args, retrieved_docs, reranked_docs, answer, entry_id, result,
                   events, stages, fault, lookups, looked, closed, commits, cache,
                   lock, doc_index, probe, services>>

NextBatch ==
    \/ SubmitBatch
    \/ ReturnBatch
    \/ \E q \in QueryIds :
          \/ StartWorker(q)
          \/ CheckCache(q)
          \/ Retrieve(q)
          \/ Rerank(q)
          \/ Generate(q)
          \/ AcquireLock(q)
          \/ AddToCacheCount(q)
          \/ AddToCacheInsert(q)
          \/ ReleaseLock(q)
          \/ Collect(q)

SpecBatch == Init /\ [][NextBatch]_vars

\* ------------------------------------------------ RateLimiter on its own
\* The clock's last reading in the model.
MaxTime == 3
\* Largest max_requests and window_seconds of a limiter under test.
MaxRequests == 2
MaxWindow == 2

\* Mutant: requests are kept for ever.
Prune_Never(times, current_time, window_seconds) == times

\* [req_time for req_time in requests if current_time - req_time < window_seconds]
Prune(times, current_time, window_seconds) ==
    SelectSeq(times, LAMBDA req_time : current_time - req_time < window_seconds)

\* if len(self.requests[client_id]) >= self.max_requests: return False
Denied(times, max_requests) == Len(times) >= max_requests

\* Mutant: allow_request does not take the lock.
LimiterLockFree_Unchecked == TRUE

\* with self.lock: the limiter's lock can be taken.
LimiterLockFree == limiter.lock = 0

InitLimiter ==
    /\ NoCalls
    /\ doc_index = Corpus
    /\ cache = <<>>
    /\ probe = NoProbe
    /\ now = 0
    /\ \E max_requests \in 0..MaxRequests, window_seconds \in 1..MaxWindow :
          limiter = NewLimiter(max_requests, window_seconds)
    /\ metrics = NewMetrics(0)
    /\ threads = [t \in Threads |-> NoThread]
    /\ http = [q \in QueryIds |-> NoRequest]

pipeline_state == <<pc, args, retrieved_docs, reranked_docs, answer, entry_id, result,
                    events, stages, fault, lookups, looked, closed, commits, cache,
                    lock, doc_index, probe, batch>>

\* The clock advances.
Tick ==
    /\ now < MaxTime
    /\ now' = now + 1
    /\ UNCHANGED <<pipeline_state, limiter, metrics, threads, http>>

\* A thread calls allow_request(client_id) and arrives at "with self.lock".
AllowRequest(t) ==
    /\ threads[t].pc = "idle"
    /\ \E client_id \in Clients :
          threads' = [threads EXCEPT ![t] =
              [@ EXCEPT !.pc = "wait", !.op = "allow", !.client = client_id]]
    /\ UNCHANGED <<pipeline_state, now, limiter, metrics, http>>

\* with self.lock: the thread enters the block.
LimiterAcquire(t) ==
    /\ threads[t].pc = "wait"
    /\ threads[t].op = "allow"
    /\ LimiterLockFree
    /\ limiter' = [limiter EXCEPT !.lock = t]
    /\ threads' = [threads EXCEPT ![t].pc = "locked"]
    /\ UNCHANGED <<pipeline_state, now, metrics, http>>

\* current_time = time.time(); the client's list is rebuilt without the
\* requests that are window_seconds old or older.
LimiterPrune(t) ==
    /\ threads[t].pc = "locked"
    /\ threads[t].op = "allow"
    /\ LET c == threads[t].client
       IN  /\ limiter' = [limiter EXCEPT !.requests[c] =
                              Prune(@, now, limiter.window_seconds)]
           /\ threads' = [threads EXCEPT ![t] =
                  [@ EXCEPT !.pc = "pruned", !.current_time = now,
                            !.seen = limiter.requests[c]]]
    /\ UNCHANGED <<pipeline_state, now, metrics, http>>

\* The length test, the append and the return; leaving the with block
\* releases the lock.
LimiterDecide(t) ==
    /\ threads[t].pc = "pruned"
    /\ threads[t].op = "allow"
    /\ LET c == threads[t].client
           current_time == threads[t].current_time
       IN  IF Denied(limiter.requests[c], limiter.max_requests)
           THEN /\ limiter' = [limiter EXCEPT !.lock = 0]
                /\ threads' = [threads EXCEPT ![t] =
                       [@ EXCEPT !.pc = "returned", !.allowed = FALSE]]
           ELSE /\ limiter' = [limiter EXCEPT
                       !.requests[c] = Append(@, current_time),
                       !.granted[c] = Append(@, current_time),
                       !.lock = 0]
                /\ threads' = [threads EXCEPT ![t] =
                       [@ EXCEPT !.pc = "returned", !.allowed = TRUE]]
    /\ UNCHANGED <<pipeline_state, now, metrics, http>>

NextLimiter ==
    \/ Tick
    \/ \E t \in Threads :
          \/ AllowRequest(t)
          \/ LimiterAcquire(t)
          \/ LimiterPrune(t)
          \/ LimiterDecide(t)

SpecLimiter == InitLimiter /\ [][NextLimiter]_vars

\* ------------------------------------------- MetricsCollector on its own
\* Mutant: record_request and get_summary do not take the lock.
MetricsLockFree_Unchecked == TRUE

\* with self.lock: the collector's lock can be taken.
MetricsLockFree == metrics.lock = 0

\* f"{cache_hit_rate:.2f}%": the rate in hundredths of a percent, rounded.
HitRate(cache_hits, total_requests) ==
    IF total_requests > 0
    THEN (2 * 10000 * cache_hits + total_requests) \div (2 * total_requests)
    ELSE 0

\* The dictionary get_summary returns.
Summary(mt) ==
    [kind |-> "summary",
     total_requests |-> mt.total_requests,
     cache_hits |-> mt.cache_hits,
     cache_misses |-> mt.cache_misses,
     cache_hit_rate |-> HitRate(mt.cache_hits, mt.total_requests)]

\* A collector built at time 0 and used at once, by threads of its own.
InitMetrics ==
    /\ NoCalls
    /\ doc_index = Corpus
    /\ cache = <<>>
    /\ probe = NoProbe
    /\ now = 0
    /\ limiter = NewLimiter(RATE_LIMIT_PER_MINUTE, WINDOW_SECONDS)
    /\ metrics = NewMetrics(0)
    /\ threads = [t \in Threads |-> NoThread]
    /\ http = [q \in QueryIds |-> NoRequest]

\* A thread calls record_request(request_metrics) and arrives at the lock.
RecordRequest(t) ==
    /\ threads[t].pc = "idle"
    /\ \E cache_hit \in BOOLEAN :
          threads' = [threads EXCEPT ![t] =
              [@ EXCEPT !.pc = "wait", !.op = "record", !.hit = cache_hit]]
    /\ UNCHANGED <<pipeline_state, now, limiter, metrics, http>>

\* A thread calls get_summary() and arrives at the lock.
GetSummary(t) ==
    /\ threads[t].pc = "idle"
    /\ threads' = [threads EXCEPT ![t] = [@ EXCEPT !.pc = "wait", !.op = "summary"]]
    /\ UNCHANGED <<pipeline_state, now, limiter, metrics, http>>

\* with self.lock, in either method.
MetricsAcquire(t) ==
    /\ threads[t].pc = "wait"
    /\ threads[t].op \in {"record", "summary"}
    /\ MetricsLockFree
    /\ metrics' = [metrics EXCEPT !.lock = t]
    /\ threads' = [threads EXCEPT ![t].pc = "locked"]
    /\ UNCHANGED <<pipeline_state, now, limiter, http>>

\* self.metrics["total_requests"] += 1
MetricsCountTotal(t) ==
    /\ threads[t].pc = "locked"
    /\ threads[t].op = "record"
    /\ metrics' = [metrics EXCEPT !.total_requests = @ + 1]
    /\ threads' = [threads EXCEPT ![t].pc = "counted"]
    /\ UNCHANGED <<pipeline_state, now, limiter, http>>

\* cache_hits += 1 or cache_misses += 1
MetricsCountHit(t) ==
    /\ threads[t].pc = "counted"
    /\ metrics' = IF threads[t].hit
                  THEN [metrics EXCEPT !.cache_hits = @ + 1]
                  ELSE [metrics EXCEPT !.cache_misses = @ + 1]
    /\ threads' = [threads EXCEPT ![t].pc = "classified"]
    /\ UNCHANGED <<pipeline_state, now, limiter, http>>

\* The latency sums (not modelled: no claim reads them), then
\* total_requests / elapsed, which raises ZeroDivisionError when the clock
\* still reads start_time; either way the with block releases the lock.
MetricsFinish(t) ==
    /\ threads[t].pc = "classified"
    /\ LET elapsed == now - metrics.start_time
       IN  threads' = [threads EXCEPT ![t].pc =
                          IF elapsed = 0 THEN "raised" ELSE "returned"]
    /\ metrics' = [metrics EXCEPT !.lock = 0, !.ended = @ + 1]
    /\ UNCHANGED <<pipeline_state, now, limiter, http>>

\* get_summary builds its dictionary under the lock and returns it.
MetricsSummarize(t) ==
    /\ threads[t].pc = "locked"
    /\ threads[t].op = "summary"
    /\ threads' = [threads EXCEPT ![t] =
           [@ EXCEPT !.pc = "returned", !.summary = Summary(metrics)]]
    /\ metrics' = [metrics EXCEPT !.lock = 0]
    /\ UNCHANGED <<pipeline_state, now, limiter, http>>

NextMetrics ==
    \/ Tick
    \/ \E t \in Threads :
          \/ RecordRequest(t)
          \/ GetSummary(t)
          \/ MetricsAcquire(t)
          \/ MetricsCountTotal(t)
          \/ MetricsCountHit(t)
          \/ MetricsFinish(t)
          \/ MetricsSummarize(t)

SpecMetrics == InitMetrics /\ [][NextMetrics]_vars

\* ------------------------------------------------ the /api/query handler
\* Mutant: a request over the limit is logged and served all the same.
LimitedState_Served == "allowed"

\* if not rate_limiter.allow_request(client_ip): raise HTTPException(429)
LimitedState == "rejected"

\* A server whose RATE_LIMIT_PER_MINUTE is set to 0 or 1, some time after
\* its first start-up (the cache is empty) and before its first request.
InitServer ==
    /\ NoCalls
    /\ doc_index = Corpus
    /\ cache = <<>>
    /\ probe = NoProbe
    /\ now = 1
    /\ \E max_requests \in {0, 1} : limiter = NewLimiter(max_requests, WINDOW_SECONDS)
    /\ metrics = NewMetrics(0)
    /\ threads = [t \in Threads |-> NoThread]
    /\ http = [q \in QueryIds |-> NoRequest]

\* A POST /api/query arrives: the handler runs allow_request(client_ip) on
\* the event loop, where no other handler runs in between, and raises 429
\* when it returns False.
HttpQuery(q) ==
    /\ http[q].state = "none"
    /\ pc[q] = "idle"
    /\ IF q = 1 THEN TRUE ELSE http[q - 1].state # "none"
    /\ \E client_ip \in Clients :
          LET kept == Prune(limiter.requests[client_ip], now, limiter.window_seconds)
          IN  IF Denied(kept, limiter.max_requests)
              THEN /\ limiter' = [limiter EXCEPT !.requests[client_ip] = kept]
                   /\ http' = [http EXCEPT ![q] =
                          [@ EXCEPT !.state = LimitedState, !.client = client_ip,
                                    !.status = 429]]
              ELSE /\ limiter' = [limiter EXCEPT
                          !.requests[client_ip] = Append(kept, now),
                          !.granted[client_ip] = Append(@, now)]
                   /\ http' = [http EXCEPT ![q] =
                          [@ EXCEPT !.state = "allowed", !.client = client_ip]]
    /\ UNCHANGED <<pipeline_state, now, metrics, threads>>

\* The handler of an allowed request calls pipeline.query in a worker
\* thread, or builds the StreamingResponse over pipeline.query_stream.
HttpDispatch(q) ==
    /\ http[q].state = "allowed"
    /\ pc[q] = "idle"
    /\ \E text \in Questions, uc \in BOOLEAN, stream \in BOOLEAN :
          Call(q, IF stream THEN "stream" ELSE "query", "web", text, uc)

\* The handler ends: a StreamingResponse is returned at once; the result
\* of pipeline.query is recorded in the metrics and returned; an exception
\* of pipeline.query or of record_request becomes a 500.
HttpRespond(q) ==
    /\ http[q].state = "allowed"
    /\ IF mode[q] = "stream"
       THEN /\ pc[q] # "idle"
            /\ http' = [http EXCEPT ![q] = [@ EXCEPT !.state = "responded", !.status = 200]]
            /\ UNCHANGED metrics
       ELSE \/ /\ pc[q] = "failed"
               /\ http' = [http EXCEPT ![q] =
                      [@ EXCEPT !.state = "responded", !.status = 500]]
               /\ UNCHANGED metrics
            \/ /\ pc[q] = "done"
               /\ metrics' = [metrics EXCEPT
                      !.total_requests = @ + 1,
                      !.cache_hits = IF result[q].cache_hit THEN @ + 1 ELSE @,
                      !.cache_misses = IF result[q].cache_hit THEN @ ELSE @ + 1,
                      !.ended = @ + 1]
               /\ http' = [http EXCEPT ![q] =
                      [@ EXCEPT !.state = "responded", !.recorded = TRUE,
                                !.status = IF now - metrics.start_time = 0
                                           THEN 500 ELSE 200]]
    /\ UNCHANGED <<pipeline_state, now, limiter, threads>>

NextServer ==
    \E q \in QueryIds :
        \/ HttpQuery(q)
        \/ HttpDispatch(q)
        \/ HttpRespond(q)
        \/ CheckCache(q)
        \/ Retrieve(q)
        \/ Rerank(q)
        \/ Generate(q)
        \/ GenerateStream(q)
        \/ AcquireLock(q)
        \/ AddToCacheCount(q)
        \/ AddToCacheInsert(q)
        \/ ReleaseLock(q)
        \/ StreamEnd(q)
        \/ Close(q)

SpecServer == InitServer /\ [][NextServer]_vars

\* ----------------------------------------------------------- properties
StageIndex(s) ==
    CASE s = "CACHE_CHECK" -> 1
      [] s = "RETRIEVE" -> 2
      [] s = "RERANK" -> 3
      [] s = "GENERATE" -> 4
      [] s = "CACHE_COMMIT" -> 5

\* C1: within one execution the stages run in the order CACHE_CHECK,
\* RETRIEVE, RERANK, GENERATE, CACHE_COMMIT: every stage begins only after
\* the stage before it has ended, a stage that begins is the successor of
\* the one that ran last, and so no stage runs twice.
C1_StageOrder ==
    \A q \in QueryIds :
        LET t == stages[q]
        IN  /\ \A i \in 1..Len(t) :
                   /\ t[i].at = (IF i % 2 = 1 THEN "begin" ELSE "end")
                   /\ i % 2 = 0 => t[i].stage = t[i - 1].stage
            /\ Len(t) >= 1 => t[1].stage = (IF use_cache[q] THEN "CACHE_CHECK" ELSE "RETRIEVE")
            /\ \A i \in 3..Len(t) :
                   i % 2 = 1 => StageIndex(t[i].stage) = StageIndex(t[i - 2].stage) + 1

\* A stream that ran all five stages to their end.
C1_Witness ==
    \E q \in QueryIds :
        /\ mode[q] = "stream"
        /\ Len(stages[q]) = 10
        /\ stages[q][10] = End("CACHE_COMMIT")

\* The second call q2 follows the first call q1 of the same question on the
\* same pipeline with nothing in between: q1 found no entry within the
\* threshold, nothing was stored between its lookup and its commit, its
\* entry is the newest one q2's lookup saw, and neither call met a failure.
MissThenHitPair(q1, q2) ==
    /\ q1 # q2
    /\ mode[q1] = "query" /\ mode[q2] = "query"
    /\ pipe[q1] = pipe[q2]
    /\ use_cache[q1] /\ use_cache[q2]
    /\ question[q1] = question[q2]
    /\ result[q1].kind = "result" /\ result[q2].kind = "result"
    /\ fault[q1] = {} /\ fault[q2] = {}
    /\ ~looked[q1].near
    /\ looked[q1].count = entry_id[q1]
    /\ looked[q2].count = entry_id[q1] + 1
    /\ cache[entry_id[q1] + 1].by = q1

\* C2: a query for a question with no cached entry returns cache_hit =
\* false, and the query of the same question that immediately follows it
\* returns cache_hit = true with the answer the first call produced.
C2_MissThenHit ==
    /\ \A q \in QueryIds :
          (/\ result[q].kind = "result"
           /\ use_cache[q]
           /\ ~looked[q].near) => ~result[q].cache_hit
    /\ \A q1, q2 \in QueryIds :
          MissThenHitPair(q1, q2) =>
              /\ ~result[q1].cache_hit
              /\ result[q2].cache_hit
              /\ result[q2].source = "cache"
              /\ result[q2].answer = result[q1].answer

C2_Witness ==
    \E q1, q2 \in QueryIds :
        /\ MissThenHitPair(q1, q2)
        /\ result[q2].cache_hit
        /\ Len(result[q2].answer) = MaxChunks

\* C3: a call with use_cache = false performs no lookup and no commit, its
\* result (or terminal event) has cache_hit = false, and it stores nothing.
C3_NoCacheIsolation ==
    \A q \in QueryIds :
        (pc[q] # "idle" /\ ~use_cache[q]) =>
            /\ lookups[q] = 0
            /\ commits[q] = 0
            /\ \A i \in 1..Len(cache) : cache[i].by # q
            /\ result[q].kind = "result" =>
                   (~result[q].cache_hit /\ result[q].source = "llm")
            /\ \A i \in 1..Len(events[q]) :
                   events[q][i].type # "cache_hit" /\ ~events[q][i].cache_hit

\* A finished use_cache = false call for a question the cache holds.
C3_Witness ==
    \E q \in QueryIds :
        /\ ~use_cache[q]
        /\ result[q].kind = "result"
        /\ \E i \in 1..Len(cache) : cache[i].document = question[q]

\* C4: check_cache returns a result exactly when the store holds an entry
\* whose similarity to the query is at least the threshold (so the nearest
\* one is); a similarity equal to the threshold is a hit, one below it is a
\* miss, and a result never carries a similarity below the threshold.  A
\* call whose embedding or index search raises returns None.
C4_ThresholdBoundary ==
    probe.returned =>
        /\ probe.failed => probe.result = None
        /\ ~probe.failed =>
               ((probe.result # None) <=> NearExists(cache, probe.query, probe.threshold))
        /\ probe.result # None =>
               /\ probe.result.similarity >= probe.threshold
               /\ \A i \in 1..Len(cache) :
                      Dot(cache[i].embedding, embed_query(probe.query))
                          <= probe.result.similarity

\* A hit whose similarity is exactly the threshold.
C4_Witness ==
    /\ probe.returned
    /\ probe.result # None
    /\ probe.result.similarity = probe.threshold
    /\ probe.threshold = CACHE_SIMILARITY_THRESHOLD
    /\ Len(cache) = MaxStore

DoneEvents(q) == {i \in 1..Len(events[q]) : events[q][i].done}

\* C5 as stated: every event sequence of query_stream that has ended,
\* however the collaborators behaved, holds exactly one done = true event,
\* and it is the last.
C5_ExactlyOneTerminal ==
    \A q \in QueryIds :
        (mode[q] = "stream" /\ pc[q] \in {"done", "failed"}) =>
            DoneEvents(q) = {Len(events[q])} /\ Len(events[q]) >= 1

\* C5 amended: an event sequence of query_stream never holds an event after
\* a done = true event (so at most one), and a sequence that ends without a
\* stage failure ends with exactly one; a sequence cut short by a stage
\* failure holds none.
C5_TerminalIsLast ==
    \A q \in QueryIds :
        /\ DoneEvents(q) \subseteq {Len(events[q])}
        /\ (mode[q] = "stream" /\ pc[q] = "done") =>
               (Len(events[q]) >= 1 /\ DoneEvents(q) = {Len(events[q])})
        /\ (mode[q] = "stream" /\ pc[q] = "failed") => DoneEvents(q) = {}

\* A stream consumed to its end after content events.
C5_Witness ==
    \E q \in QueryIds :
        /\ mode[q] = "stream"
        /\ pc[q] = "done"
        /\ Len(events[q]) = MaxChunks + 2
        /\ events[q][Len(events[q])].type = "complete"

\* C6: when the consumer closes a stream before it has received a done =
\* true event, add_to_cache is never run for that stream and the cache
\* holds no entry written by it.
C6_NoCommitAfterCancel ==
    \A q \in QueryIds :
        (closed[q] /\ DoneEvents(q) = {}) =>
            /\ commits[q] = 0
            /\ \A i \in 1..Len(cache) : cache[i].by # q

\* A use_cache stream closed after its last content event.
C6_Witness ==
    \E q \in QueryIds :
        /\ closed[q]
        /\ use_cache[q]
        /\ DoneEvents(q) = {}
        /\ Len(answer[q]) = MaxChunks

\* Inside add_to_cache: between its call and its return.
InAdd(q) == pc[q] \in {"add_count", "add_insert"}

\* add_to_cache was called and has returned.
AddReturned(q) == commits[q] > 0 /\ ~InAdd(q)

\* C7 as stated: the commits that ran without an embedding or index failure
\* each left an entry of their own, under pairwise distinct ids.
C7_AllCommitsLand ==
    \A q \in QueryIds :
        (AddReturned(q) /\ "add" \notin fault[q]) =>
            /\ \E i \in 1..Len(cache) : cache[i].by = q /\ cache[i].id = entry_id[q]
            /\ \A r \in QueryIds \ {q} :
                   (AddReturned(r) /\ "add" \notin fault[r]) => entry_id[r] # entry_id[q]

\* C8 as stated: no id is given to two commits that met no embedding or
\* index failure, and the stored ids increase strictly in the order the
\* entries were stored.
C8_IdsUniqueIncreasing ==
    /\ \A q, r \in QueryIds :
          (/\ q # r
           /\ entry_id[q] >= 0 /\ "add" \notin fault[q]
           /\ entry_id[r] >= 0 /\ "add" \notin fault[r]) => entry_id[q] # entry_id[r]
    /\ \A i, j \in 1..Len(cache) : i < j => cache[i].id < cache[j].id

C10_CommitMutexProcessWide ==
    \A q, r \in QueryIds :
        q # r => ~(InAdd(q) /\ InAdd(r))

\* C11 as stated: a call with the empty question is rejected before
\* CACHE_CHECK: it runs no stage, looks nothing up, commits nothing, and
\* neither returns a result nor yields an event.
C11_EmptyRejected ==
    \A q \in QueryIds :
        (pc[q] # "idle" /\ question[q] = "") =>
            /\ stages[q] = <<>>
            /\ lookups[q] = 0
            /\ commits[q] = 0
            /\ result[q] = None
            /\ events[q] = <<>>

\* The failures that leave the pipeline, and the stage each one ends.
StageFaults == {"retrieve", "rerank", "generate"}
StageOfFault(f) ==
    CASE f = "retrieve" -> "RETRIEVE"
      [] f = "rerank" -> "RERANK"
      [] f = "generate" -> "GENERATE"

\* C12: when retrieve, rerank or generate fails, the execution ends there
\* with the failure (the failing stage is the last one it ran, no result is
\* returned and no terminal event is yielded), add_to_cache is never called
\* for it and the cache holds no entry written by it.
C12_StageFailureAborts ==
    \A q \in QueryIds :
        \A f \in fault[q] \cap StageFaults :
            /\ pc[q] = "failed"
            /\ stages[q][Len(stages[q])] = End(StageOfFault(f))
            /\ result[q] = None
            /\ DoneEvents(q) = {}
            /\ commits[q] = 0
            /\ entry_id[q] = -1
            /\ \A i \in 1..Len(cache) : cache[i].by # q

\* A use_cache stream whose generator failed after all its fragments were
\* streamed.
C12_Witness ==
    \E q \in QueryIds :
        /\ mode[q] = "stream"
        /\ use_cache[q]
        /\ "generate" \in fault[q]
        /\ Len(events[q]) = MaxChunks + 1
        /\ events[q][Len(events[q])].type = "content"

\* C13: a check_cache whose embedding or index search fails returns None
\* without raising: the call is not failed by it, reports no hit, and goes
\* on with RETRIEVE.
C13_LookupFailsOpen ==
    \A q \in QueryIds :
        "lookup" \in fault[q] =>
            /\ lookups[q] = 1
            /\ pc[q] # "check"
            /\ pc[q] = "failed" => fault[q] \cap StageFaults # {}
            /\ Len(stages[q]) >= 3 => stages[q][3] = Begin("RETRIEVE")
            /\ result[q].kind = "result" =>
                   (~result[q].cache_hit /\ result[q].source = "llm")
            /\ \A i \in 1..Len(events[q]) : events[q][i].type # "cache_hit"

\* A query that finished on the miss path although the cache held an entry
\* within the threshold when its lookup failed.
C13_Witness ==
    \E q \in QueryIds :
        /\ "lookup" \in fault[q]
        /\ looked[q].near
        /\ mode[q] = "query"
        /\ pc[q] = "done"
        /\ result[q].source = "llm"

\* C14: an add_to_cache whose embedding or insert fails returns without
\* raising and stores nothing; query still returns the generated answer
\* with source "llm", and query_stream still yields the complete event.
C14_CommitFailureSwallowed ==
    \A q \in QueryIds :
        "add" \in fault[q] =>
            /\ commits[q] = 1
            /\ \A i \in 1..Len(cache) : cache[i].by # q
            /\ pc[q] \in {"release", "done", "yield_complete", "cancelled"}
            /\ (mode[q] = "query" /\ pc[q] # "release") =>
                   result[q] = QueryResult(answer[q], "llm", FALSE,
                                           Len(retrieved_docs[q]), reranked_docs[q], TRUE)
            /\ (mode[q] = "stream" /\ pc[q] # "release") =>
                   /\ Len(events[q]) = Len(answer[q]) + 2
                   /\ events[q][Len(events[q])] = Event("complete", <<>>, 0, TRUE, FALSE)

\* A query that returned a full answer after its insert failed.
C14_Witness ==
    \E q \in QueryIds :
        /\ "add" \in fault[q]
        /\ entry_id[q] >= 0
        /\ mode[q] = "query"
        /\ pc[q] = "done"
        /\ Len(result[q].answer) = MaxChunks

\* The call got a result from check_cache.
GotHit(q) ==
    \/ result[q].kind = "result" /\ result[q].cache_hit
    \/ \E i \in 1..Len(events[q]) : events[q][i].type = "cache_hit"

\* C16: a call whose check_cache returned a result ran no other stage:
\* query has returned the cached response with source "cache" and
\* cache_hit = true, query_stream has yielded it in a cache_hit event, and
\* neither the retriever, the reranker, the generator nor add_to_cache ran.
C16_HitShortCircuits ==
    \A q \in QueryIds :
        GotHit(q) =>
            /\ stages[q] = Mark("CACHE_CHECK")
            /\ lookups[q] = 1
            /\ commits[q] = 0
            /\ retrieved_docs[q] = <<>>
            /\ reranked_docs[q] = <<>>
            /\ answer[q] = <<>>
            /\ \A i \in 1..Len(cache) : cache[i].by # q
            /\ mode[q] = "query" =>
                   /\ pc[q] = "done"
                   /\ result[q].source = "cache"
                   /\ \E i \in 1..Len(cache) : cache[i].response = result[q].answer
            /\ mode[q] = "stream" =>
                   /\ pc[q] \in {"yield_hit", "done", "cancelled"}
                   /\ Len(events[q]) = 1
                   /\ \E i \in 1..Len(cache) :
                          events[q][1] = Event("cache_hit", cache[i].response, 0, TRUE, TRUE)

\* A query answered from an entry whose similarity is exactly the threshold.
C16_Witness ==
    \E q \in QueryIds :
        /\ mode[q] = "query"
        /\ question[q] = "qa"
        /\ result[q].kind = "result"
        /\ result[q].source = "cache"
        /\ pc[q] = "done"

\* The event sequence of a stream that missed, for n fragments received and
\* k documents reranked, up to and including the complete event.
MissEvents(n, k) ==
    <<Event("retrieval_complete", <<>>, k, FALSE, FALSE)>>
        \o [i \in 1..n |-> Event("content", <<Fragment(i)>>, 0, FALSE, FALSE)]
        \o <<Event("complete", <<>>, 0, TRUE, FALSE)>>

IsPrefix(s, t) == Len(s) <= Len(t) /\ s = SubSeq(t, 1, Len(s))

\* C17: the events of a query_stream are either one cache_hit event alone,
\* or one retrieval_complete event (yielded once RERANK has ended and before
\* GENERATE begins), then one content event per fragment in the generator's
\* order, then one complete event; a stream consumed to its end has yielded
\* the whole of one of the two forms.  query yields no event.
C17_EventOrder ==
    \A q \in QueryIds :
        LET e == events[q]
            t == stages[q]
            n == Len(answer[q])
            whole == MissEvents(n, Len(reranked_docs[q]))
        IN  /\ mode[q] = "query" => e = <<>>
            /\ (mode[q] = "stream" /\ GotHit(q)) =>
                   (Len(e) = 1 /\ e[1].type = "cache_hit" /\ e[1].done)
            /\ (mode[q] = "stream" /\ ~GotHit(q)) =>
                   /\ IsPrefix(e, whole)
                   /\ (Len(e) >= 1) <=>
                          (/\ \E i \in 1..Len(t) : t[i] = End("RERANK")
                           /\ "rerank" \notin fault[q])
                   /\ (\E i \in 1..Len(t) : t[i] = Begin("GENERATE")) => Len(e) >= 1
                   /\ Len(e) >= 1 => Len(e) >= n + 1
                   /\ pc[q] \in {"yield_complete", "done"} => e = whole

\* A stream that missed, consumed to its end.
C17_Witness ==
    \E q \in QueryIds :
        /\ mode[q] = "stream"
        /\ use_cache[q]
        /\ lookups[q] = 1
        /\ pc[q] = "done"
        /\ events[q] = MissEvents(MaxChunks, TOP_K_RERANK)

\* The data of the content events of a sequence, concatenated in order.
RECURSIVE ConcatContent(_)
ConcatContent(es) ==
    IF es = <<>> THEN <<>>
    ELSE (IF Head(es).type = "content" THEN Head(es).data ELSE <<>>)
             \o ConcatContent(Tail(es))

\* C18: full_response of a query_stream is the concatenation, in emission
\* order, of the data of the content events yielded so far; it is passed to
\* add_to_cache only once the generator is exhausted, and the response
\* stored for the stream is the concatenation of all its content events.
C18_FullAnswerCommitted ==
    \A q \in QueryIds :
        mode[q] = "stream" =>
            /\ answer[q] = ConcatContent(events[q])
            /\ commits[q] > 0 =>
                   \E i \in 1..Len(stages[q]) : stages[q][i] = End("GENERATE")
            /\ \A i \in 1..Len(cache) :
                   cache[i].by = q => cache[i].response = ConcatContent(events[q])

\* A finished stream whose stored response holds all its fragments.
C18_Witness ==
    \E q \in QueryIds :
        /\ mode[q] = "stream"
        /\ pc[q] = "done"
        /\ \E i \in 1..Len(cache) :
               /\ cache[i].by = q
               /\ Len(cache[i].response) = MaxChunks
               /\ cache[i].response = ConcatContent(events[q])

\* rerank ran for the call and did not fail.
Reranked(q) ==
    /\ "rerank" \notin fault[q]
    /\ \E i \in 1..Len(stages[q]) : stages[q][i] = End("RERANK")

\* C19: on the miss path num_reranked <= num_retrieved; for every top_k,
\* rerank returns at most top_k documents, no more than it was given, each
\* of them one of the documents it was given and none of them twice, and
\* the empty list for an empty input.
C19_RerankNeverGrows ==
    \A q \in QueryIds :
        LET given == retrieved_docs[q]
        IN  /\ Len(reranked_docs[q]) <= Len(given)
            /\ Reranked(q) =>
                   /\ reranked_docs[q] = rerank(question[q], given, TOP_K_RERANK)
                   /\ \A i \in 1..Len(reranked_docs[q]) :
                          \E j \in 1..Len(given) : reranked_docs[q][i] = given[j]
            /\ (result[q].kind = "result" /\ ~result[q].cache_hit) =>
                   /\ result[q].num_retrieved = Len(given)
                   /\ result[q].num_reranked = Len(reranked_docs[q])
                   /\ result[q].num_reranked <= result[q].num_retrieved
            /\ \A k \in 0..(MaxDocs + 1) :
                   LET r == rerank(question[q], given, k)
                   IN  /\ Len(r) <= k
                       /\ Len(r) <= Len(given)
                       /\ \A i \in 1..Len(r) :
                              \E j \in 1..Len(given) :
                                  r[i].id = given[j].id /\ r[i].text = given[j].text
                       /\ Cardinality({r[i].id : i \in 1..Len(r)}) = Len(r)
                       /\ given = <<>> => r = <<>>

\* A query over a full index: more documents retrieved than top_k, top_k
\* of them kept.
C19_Witness ==
    \E q \in QueryIds :
        /\ result[q].kind = "result"
        /\ result[q].num_retrieved = MaxDocs
        /\ result[q].num_reranked = TOP_K_RERANK
        /\ result[q].num_retrieved > result[q].num_reranked

\* Inside the with block of the commit.
InWith(q) == pc[q] \in {"add_count", "add_insert", "release"}

\* C15: under fair scheduling a call that has reached its commit and waits
\* for the lock of its pipeline eventually takes it, runs add_to_cache to
\* its return and gives the lock back, whether add_to_cache failed or not.
C15_CommitLiveness ==
    \A q \in QueryIds :
        (pc[q] = "commit") ~>
            (commits[q] = 1 /\ ~InWith(q) /\ lock[pipe[q]] # q)

\* A call waiting for the lock while the holder's add_to_cache has failed.
C15_Witness ==
    \E q, r \in QueryIds :
        /\ q # r
        /\ pipe[q] = pipe[r]
        /\ pc[q] = "commit"
        /\ pc[r] = "release"
        /\ "add" \in fault[r]
        /\ lock[pipe[q]] = r

\* C20: a call in which retrieve, rerank or generate failed holds no lock,
\* is not inside a commit and has stored nothing; a lock is only ever held
\* by a call inside its with block, so a call waiting at its commit can
\* take the lock unless another call is inside its commit.
C20_StageFailureIsolated ==
    /\ \A q \in QueryIds :
          fault[q] \cap StageFaults # {} =>
              /\ \A p \in Pipelines : lock[p] # q
              /\ ~InWith(q)
              /\ \A i \in 1..Len(cache) : cache[i].by # q
    /\ \A p \in Pipelines :
          lock[p] # 0 => (lock[p] \in QueryIds /\ pipe[lock[p]] = p /\ InWith(lock[p]))
    /\ \A q \in QueryIds : InWith(q) => lock[pipe[q]] = q
    /\ \A r \in QueryIds :
          pc[r] = "commit" =>
              \/ ENABLED AcquireLock(r)
              \/ \E q \in QueryIds \ {r} : pipe[q] = pipe[r] /\ InWith(q)

\* After a generator failure in one call, another call of the same pipeline
\* has finished and its entry is stored.
C20_Witness ==
    \E q, r \in QueryIds :
        /\ q # r
        /\ pipe[q] = pipe[r]
        /\ "generate" \in fault[q]
        /\ use_cache[q]
        /\ pc[r] = "done"
        /\ \E i \in 1..Len(cache) : cache[i].by = r

\* C21: a query_stream in which a stage failed has ended with the raised
\* failure and has yielded no done = true event, while a stream whose
\* iteration ended without a failure has a done = true event as its last
\* event: the two endings cannot be mistaken for each other.
C21_StreamFailureDistinguishable ==
    \A q \in QueryIds :
        mode[q] = "stream" =>
            /\ fault[q] \cap StageFaults # {} =>
                   (pc[q] = "failed" /\ DoneEvents(q) = {})
            /\ pc[q] = "failed" => fault[q] \cap StageFaults # {}
            /\ pc[q] = "done" =>
                   /\ fault[q] \cap StageFaults = {}
                   /\ Len(events[q]) >= 1
                   /\ events[q][Len(events[q])].done

\* A stream aborted by the reranker after a failed lookup, before any event.
C21_Witness ==
    \E q \in QueryIds :
        /\ mode[q] = "stream"
        /\ pc[q] = "failed"
        /\ fault[q] = {"lookup", "rerank"}
        /\ events[q] = <<>>

\* C23: in every result of query, cache_hit is true exactly when source is
\* "cache"; the result carries the reranked documents exactly on the miss
\* path, and on the hit path num_retrieved and num_reranked are 0.
C23_ResultConsistency ==
    \A q \in QueryIds :
        result[q].kind = "result" =>
            /\ mode[q] = "query"
            /\ result[q].source \in {"cache", "llm"}
            /\ result[q].cache_hit <=> (result[q].source = "cache")
            /\ result[q].has_docs <=> (result[q].source = "llm")
            /\ result[q].source = "cache" =>
                   /\ result[q].num_retrieved = 0
                   /\ result[q].num_reranked = 0
                   /\ stages[q] = Mark("CACHE_CHECK")
            /\ result[q].source = "llm" =>
                   /\ result[q].retrieved_docs = reranked_docs[q]
                   /\ result[q].num_reranked = Len(reranked_docs[q])
                   /\ result[q].num_retrieved = Len(retrieved_docs[q])
                   /\ \E i \in 1..Len(stages[q]) : stages[q][i] = End("GENERATE")

\* One call answered from the cache and one answered by the language model.
C23_Witness ==
    \E q, r \in QueryIds :
        /\ result[q].kind = "result" /\ result[q].source = "cache"
        /\ result[r].kind = "result" /\ result[r].source = "llm"
        /\ result[r].num_reranked = TOP_K_RERANK

\* Every commit made so far ran on the pipeline of q, whose lock put them
\* one after the other.
Sequential(q) == \A s \in QueryIds : commits[s] > 0 => pipe[s] = pipe[q]

\* C24: commits made one after the other each leave an entry of their own
\* under an id of their own, whatever the store already holds: also when
\* the same or a near-duplicate question is already stored.
C24_NoDeduplication ==
    \A q \in QueryIds :
        (AddReturned(q) /\ "add" \notin fault[q] /\ Sequential(q)) =>
            /\ \E i \in 1..Len(cache) :
                   /\ cache[i].by = q
                   /\ cache[i].id = entry_id[q]
                   /\ cache[i].document = question[q]
                   /\ \A j \in 1..Len(cache) : j # i => cache[j].id # cache[i].id
            /\ \A r \in QueryIds \ {q} :
                   (AddReturned(r) /\ "add" \notin fault[r]) => entry_id[r] # entry_id[q]

\* The question "qa" committed twice on one pipeline next to the stored
\* near-duplicate "qb": three entries.
C24_Witness ==
    \E q, r \in QueryIds :
        /\ q # r
        /\ pipe[q] = pipe[r]
        /\ question[q] = "qa" /\ question[r] = "qa"
        /\ Len(cache) = 3
        /\ cache[1].document = "qb"
        /\ cache[2].by = q /\ cache[2].document = "qa"
        /\ cache[3].by = r /\ cache[3].document = "qa"

\* The answer a hit handed to the caller.
HitAnswer(q) == IF mode[q] = "query" THEN result[q].answer ELSE events[q][1].data

\* C27: whatever the interleaving of lookups and commits, an entry written
\* by a call holds that call's question and the answer it generated, and a
\* hit returns the response of an entry that was stored when the lookup ran
\* and lies within the threshold of the question; the race can only make a
\* lookup miss and a second entry for the question appear.
C27_RaceOnlyDuplicates ==
    /\ \A i \in 1..Len(cache) :
          cache[i].by \in QueryIds =>
              /\ cache[i].document = question[cache[i].by]
              /\ cache[i].embedding = embed_query(question[cache[i].by])
              /\ cache[i].response = answer[cache[i].by]
              /\ commits[cache[i].by] = 1
    /\ \A q \in QueryIds :
          GotHit(q) =>
              \E i \in 1..looked[q].count :
                  /\ cache[i].response = HitAnswer(q)
                  /\ Dot(cache[i].embedding, embed_query(question[q]))
                         >= CACHE_SIMILARITY_THRESHOLD

\* Two calls of one pipeline for the same question that both looked the
\* cache up before either had committed: both missed, both entries stored.
C27_Witness ==
    \E q, r \in QueryIds :
        /\ q # r
        /\ pipe[q] = pipe[r]
        /\ question[q] = question[r]
        /\ lookups[q] = 1 /\ lookups[r] = 1
        /\ fault[q] = {} /\ fault[r] = {}
        /\ ~looked[q].near /\ ~looked[r].near
        /\ looked[q].count = looked[r].count
        /\ \E i, j \in 1..Len(cache) :
               /\ i # j
               /\ cache[i].by = q /\ cache[j].by = r
               /\ cache[i].document = cache[j].document

\* C28: when a use_cache query_stream has yielded its complete event,
\* add_to_cache has been called and has returned and the lock is released;
\* if its entry was stored, a lookup of the same question now hits.
C28_CommitBeforeComplete ==
    \A q \in QueryIds :
        (/\ mode[q] = "stream"
         /\ use_cache[q]
         /\ \E i \in 1..Len(events[q]) : events[q][i].type = "complete") =>
            /\ commits[q] = 1
            /\ ~InWith(q)
            /\ lock[pipe[q]] # q
            /\ stages[q][Len(stages[q])] = End("CACHE_COMMIT")
            /\ (\E i \in 1..Len(cache) : cache[i].by = q) =>
                   \A r \in check_cache(cache, question[q], CACHE_SIMILARITY_THRESHOLD) :
                       r # None /\ r.similarity = 100

\* The consumer has just received the complete event of a stream whose
\* entry is stored.
C28_Witness ==
    \E q \in QueryIds :
        /\ mode[q] = "stream"
        /\ pc[q] = "yield_complete"
        /\ Len(answer[q]) = MaxChunks
        /\ \E i \in 1..Len(cache) : cache[i].by = q

\* C29: the cache store changes only in the insert of an add_to_cache call,
\* by one appended entry of the calling execution, which is not on the hit
\* path; no other step (lookup, retrieve, rerank, generate, yields, close)
\* changes it, and no stored entry is ever changed or removed.
C29_SingleWriter ==
    [][cache' # cache =>
          \E q \in QueryIds :
              /\ pc[q] = "add_insert"
              /\ pc'[q] = "release"
              /\ commits[q] = 1
              /\ ~GotHit(q)
              /\ cache' = Append(cache, CacheEntry(entry_id[q], question[q], answer[q],
                                                   reranked_docs[q], q))]_vars

\* One call has stored an entry and another has been answered from the cache.
C29_Witness ==
    \E q, r \in QueryIds :
        /\ q # r
        /\ \E i \in 1..Len(cache) : cache[i].by = q
        /\ GotHit(r)
        /\ pc[r] = "done"

\* C26: check_cache neither waits for nor takes the commit lock: every
\* call that is about to look the cache up can do so at once, whoever
\* holds the lock of its pipeline and however many other calls are about to
\* look up, and a call that has only looked up holds no lock.
C26_LookupsNotSerialized ==
    \A q \in QueryIds :
        /\ pc[q] = "check" => ENABLED CheckCache(q)
        /\ (pc[q] = "check" \/ commits[q] = 0) => \A p \in Pipelines : lock[p] # q

\* A call about to look up while another call of its pipeline is between
\* the count and the insert of its add_to_cache.
C26_Witness ==
    \E q, r \in QueryIds :
        /\ q # r
        /\ pipe[q] = pipe[r]
        /\ pc[q] = "check"
        /\ pc[r] = "add_insert"
        /\ lock[pipe[q]] = r
        /\ ENABLED CheckCache(q)

Min(a, b) == IF a < b THEN a ELSE b

\* C30: for a non-empty input and every top_k, rerank returns
\* min(top_k, len(documents)) documents, each with the score the
\* cross-encoder gives its text, in descending order of that score, and no
\* document left out has a higher score than a document returned.
C30_RerankOrdering ==
    \A q \in QueryIds :
        LET given == retrieved_docs[q]
            scored == ScoreDocuments(question[q], given)
        IN  given # <<>> =>
                \A k \in 0..(MaxDocs + 1) :
                    LET r == rerank(question[q], given, k)
                        kept == {r[i].id : i \in 1..Len(r)}
                    IN  /\ Len(r) = Min(k, Len(given))
                        /\ \A i \in 1..Len(r) :
                               r[i].rerank_score = CrossEncoderScore(question[q], r[i].text)
                        /\ \A i \in 1..(Len(r) - 1) :
                               r[i].rerank_score >= r[i + 1].rerank_score
                        /\ \A i \in 1..Len(r), j \in 1..Len(scored) :
                               scored[j].id \notin kept =>
                                   r[i].rerank_score >= scored[j].rerank_score

\* A rerank of a full index that moved another document to the front and
\* dropped the lowest.
C30_Witness ==
    \E q \in QueryIds :
        /\ Reranked(q)
        /\ Len(retrieved_docs[q]) = MaxDocs
        /\ Len(reranked_docs[q]) = TOP_K_RERANK
        /\ reranked_docs[q][1].id # retrieved_docs[q][1].id
        /\ reranked_docs[q][1].rerank_score > reranked_docs[q][TOP_K_RERANK].rerank_score

\* C22: process_batch returns one record per submitted query: as many
\* records as queries, with the same multiset of 'query' values; the record
\* of a call that raised carries 'error' and answer None, the record of a
\* call that returned is its dictionary; a call that raised neither ends
\* the batch nor keeps any other completed call from being collected.
C22_BatchComplete ==
    LET queries == batch.queries
        results == batch.results
        order == batch.order
    IN  /\ batch.state \in {"running", "returned"} =>
              /\ Len(results) = Len(order)
              /\ \A i, j \in 1..Len(order) : i # j => order[i] # order[j]
              /\ \A i \in 1..Len(order) :
                     LET q == order[i]
                     IN  /\ q \in 1..Len(queries)
                         /\ results[i].query = queries[q]
                         /\ IF fault[q] \cap StageFaults # {}
                            THEN /\ results[i].kind = "error"
                                 /\ results[i].answer = None
                            ELSE /\ results[i].kind = "result"
                                 /\ results[i].answer = result[q].answer
                                 /\ results[i].cache_hit = result[q].cache_hit
        /\ batch.state = "running" =>
              \A q \in 1..Len(queries) :
                  /\ pc[q] # "idle"
                  /\ (Finished(q) /\ \A i \in 1..Len(order) : order[i] # q)
                         => ENABLED Collect(q)
        /\ batch.state = "returned" =>
              /\ Len(results) = Len(queries)
              /\ \A text \in Questions :
                     Cardinality({i \in 1..Len(results) : results[i].query = text})
                         = Cardinality({j \in 1..Len(queries) : queries[j] = text})

\* A returned batch of NumQueries equal questions in which one call raised
\* and a later-submitted call was collected first.
C22_Witness ==
    /\ batch.state = "returned"
    /\ Len(batch.queries) = NumQueries
    /\ batch.queries[1] = batch.queries[2]
    /\ batch.order[1] # 1
    /\ \E i, j \in 1..Len(batch.results) :
          batch.results[i].kind = "error" /\ batch.results[j].kind = "result"

\* The generator returned the whole answer to the pipeline.
Generated(q) ==
    /\ \E i \in 1..Len(stages[q]) : stages[q][i] = End("GENERATE")
    /\ "generate" \notin fault[q]

\* The call has run to its end: query returned, query_stream yielded its
\* last event.
AtEnd(q) == pc[q] \in {"done", "yield_complete", "yield_hit"}

\* C31: no call of either mode calls add_to_cache more than once; a call
\* that has called it was made with use_cache = true, missed in its lookup
\* and got the whole answer from the generator; a call made with use_cache
\* = true that missed and got the whole answer calls it (it can only still
\* be waiting for the lock), and has called it once when it ends.
C31_ExactlyOnceCommit ==
    \A q \in QueryIds :
        /\ commits[q] \in {0, 1}
        /\ commits[q] = 1 => (use_cache[q] /\ ~GotHit(q) /\ Generated(q))
        /\ (pc[q] # "idle" /\ use_cache[q] /\ ~GotHit(q) /\ Generated(q)) =>
               (commits[q] = 1 \/ pc[q] = "commit")
        /\ AtEnd(q) => (commits[q] = 1 <=> (use_cache[q] /\ ~GotHit(q) /\ Generated(q)))

\* A stream that committed once and ended, beside a call that hit and did
\* not commit.
C31_Witness ==
    \E q, r \in QueryIds :
        /\ mode[q] = "stream"
        /\ pc[q] = "done"
        /\ commits[q] = 1
        /\ GotHit(r)
        /\ commits[r] = 0

\* C32: a query_stream generator suspended at a yield, not yet started,
\* closed or ended never holds the lock of its pipeline: the lock is held
\* only inside add_to_cache, where no consumer is waited for.  So a call
\* waiting for the lock waits only for a call that is inside the with
\* block, never for a stream its consumer stalled or abandoned.
C32_NoLockAcrossYield ==
    /\ \A q \in QueryIds :
          (mode[q] = "stream" /\ ~InWith(q)) => \A p \in Pipelines : lock[p] # q
    /\ \A q \in QueryIds :
          (pc[q] \in YieldPcs \cup {"cancelled", "done"} \/ Created(q)) =>
              \A p \in Pipelines : lock[p] # q
    /\ \A r \in QueryIds :
          (pc[r] = "commit" /\
           \A q \in QueryIds \ {r} :
               pipe[q] = pipe[r] => (pc[q] \in YieldPcs \cup {"cancelled"} \/ ~InWith(q)))
              => ENABLED AcquireLock(r)

\* A stream suspended at its complete event after its commit while another
\* call of the same pipeline is inside add_to_cache.
C32_Witness ==
    \E q, r \in QueryIds :
        /\ q # r
        /\ pipe[q] = pipe[r]
        /\ mode[q] = "stream"
        /\ pc[q] = "yield_complete"
        /\ commits[q] = 1
        /\ pc[r] = "add_count"
        /\ lock[pipe[r]] = r

\* The stored entries within the threshold of a question.
Near(text) ==
    {i \in 1..Len(cache) :
        Dot(cache[i].embedding, embed_query(text)) >= CACHE_SIMILARITY_THRESHOLD}

\* C33: when query has returned from its miss path with use_cache = true,
\* the entry its commit stored holds the answer it returned, under the
\* question it was asked, with doc_count equal to num_reranked; and a hit
\* of another call that can only have been on that entry returns that same
\* answer.
C33_CachedIsReturned ==
    \A q \in QueryIds :
        (/\ mode[q] = "query"
         /\ pc[q] = "done"
         /\ use_cache[q]
         /\ ~result[q].cache_hit) =>
            /\ \A i \in 1..Len(cache) :
                   cache[i].by = q =>
                       /\ cache[i].response = result[q].answer
                       /\ cache[i].document = question[q]
                       /\ cache[i].doc_count = result[q].num_reranked
            /\ \A r \in QueryIds :
                   (/\ GotHit(r)
                    /\ \A j \in Near(question[r]) : cache[j].by = q) =>
                       HitAnswer(r) = result[q].answer

\* A returned miss whose entry of three documents was then hit by a call
\* of another question within the threshold.
C33_Witness ==
    \E q, r \in QueryIds :
        /\ mode[q] = "query"
        /\ pc[q] = "done"
        /\ use_cache[q]
        /\ ~result[q].cache_hit
        /\ result[q].num_reranked = TOP_K_RERANK
        /\ Len(result[q].answer) = MaxChunks
        /\ GotHit(r)
        /\ Near(question[r]) # {}
        /\ \A j \in Near(question[r]) : cache[j].by = q

\* C34: no step removes or rewrites a stored entry or makes the store
\* shorter; and a lookup that meets no failure and runs when an entry
\* stored under its own question is in the cache is a hit.
C34_AppendOnly ==
    [][/\ Len(cache') >= Len(cache)
       /\ IsPrefix(cache, cache')
       /\ \A r \in QueryIds :
             (/\ pc[r] = "check"
              /\ lookups'[r] = lookups[r] + 1
              /\ "lookup" \notin fault'[r]
              /\ \E i \in 1..Len(cache) : cache[i].document = question[r]) =>
                 \/ result'[r].kind = "result" /\ result'[r].cache_hit
                 \/ \E i \in 1..Len(events'[r]) : events'[r][i].type = "cache_hit"]_vars

\* A stream that hit on the entry an earlier call committed, in a store
\* that held another entry before.
C34_Witness ==
    \E q, r \in QueryIds :
        /\ mode[r] = "stream"
        /\ GotHit(r)
        /\ Len(cache) = 2
        /\ cache[2].by = q
        /\ cache[2].document = question[r]

\* C35: whatever the interleaving of allow_request calls, no client's list
\* of recorded requests is longer than max_requests, and of the calls that
\* returned True for one client no max_requests + 1 took clock readings
\* less than window_seconds apart.
C35_RateLimitBound ==
    \A c \in Clients :
        /\ Len(limiter.requests[c]) <= limiter.max_requests
        /\ \A i, j \in 1..Len(limiter.granted[c]) :
               j - i >= limiter.max_requests =>
                   limiter.granted[c][j] - limiter.granted[c][i] >= limiter.window_seconds

\* A client that was granted max_requests + 1 requests over time and
\* denied one in between.
C35_Witness ==
    \E c \in Clients :
        /\ limiter.max_requests >= 1
        /\ Len(limiter.granted[c]) = limiter.max_requests + 1
        /\ \E t \in Threads :
              /\ threads[t].pc = "returned"
              /\ threads[t].client = c
              /\ ~threads[t].allowed

\* The requests of the list the call found that are younger than the window.
Live(t) ==
    {i \in 1..Len(threads[t].seen) :
        threads[t].current_time - threads[t].seen[i] < limiter.window_seconds}

\* C36: a call that returns False leaves every list as it is; a call made
\* when the oldest recorded request of its client is window_seconds old or
\* older returns True; the outcome of a call is fixed by its own client's
\* list and the clock, and only the calls of a client change that client's
\* list.
C36_RateLimitRecovery ==
    [][/\ \A d \in Clients :
              limiter'.requests[d] # limiter.requests[d] =>
                  \E t \in Threads : threads'[t] # threads[t] /\ threads[t].client = d
       /\ \A t \in Threads :
              (threads[t].pc = "pruned" /\ threads'[t].pc = "returned") =>
                  /\ threads'[t].allowed <=> Cardinality(Live(t)) < limiter.max_requests
                  /\ ~threads'[t].allowed =>
                         /\ limiter'.requests = limiter.requests
                         /\ limiter'.granted = limiter.granted
                  /\ (/\ threads[t].seen # <<>>
                      /\ threads[t].current_time - threads[t].seen[1]
                             >= limiter.window_seconds) => threads'[t].allowed]_vars

\* A call granted because the oldest request of a full list had aged out,
\* after another call of the same client was denied.
C36_Witness ==
    \E t, u \in Threads :
        /\ threads[t].pc = "returned"
        /\ threads[t].allowed
        /\ Len(threads[t].seen) = limiter.max_requests
        /\ threads[t].seen # <<>>
        /\ threads[t].current_time - threads[t].seen[1] >= limiter.window_seconds
        /\ threads[u].pc = "returned"
        /\ threads[u].client = threads[t].client
        /\ ~threads[u].allowed

\* The threads that are inside the body of record_request.
Recording == {t \in Threads : threads[t].op = "record" /\
                              threads[t].pc \in {"locked", "counted", "classified"}}

\* C37: at most one thread is inside record_request; whenever none is,
\* cache_hits + cache_misses = total_requests and total_requests is the
\* number of record_request calls that have ended; and every dictionary
\* get_summary has returned satisfies that equality.
C37_MetricsCounters ==
    /\ Cardinality(Recording) <= 1
    /\ Recording = {} =>
          /\ metrics.cache_hits + metrics.cache_misses = metrics.total_requests
          /\ metrics.total_requests = metrics.ended
    /\ metrics.ended =
          Cardinality({t \in Threads : threads[t].op = "record" /\
                                       threads[t].pc \in {"returned", "raised"}})
    /\ \A t \in Threads :
          threads[t].summary # NoSummary =>
              /\ threads[t].summary.cache_hits + threads[t].summary.cache_misses
                     = threads[t].summary.total_requests
              /\ threads[t].summary.total_requests <= metrics.ended

\* A summary of one hit and one miss, taken after two calls that ran one
\* after the other.
C37_Witness ==
    \E t \in Threads :
        /\ threads[t].summary # NoSummary
        /\ threads[t].summary.total_requests = 2
        /\ threads[t].summary.cache_hits = 1
        /\ threads[t].summary.cache_misses = 1

\* C38: a request answered 429 is one the limiter denied; no call of
\* pipeline.query or pipeline.query_stream was made for it, no stage ran,
\* nothing in the cache comes from it and the metrics collector did not
\* record it: the collector holds exactly the requests whose pipeline.query
\* returned.
C38_LimitBeforePipeline ==
    /\ \A q \in QueryIds :
          /\ http[q].status = 429 <=> http[q].state = "rejected"
          /\ http[q].status = 429 =>
                 /\ Len(limiter.requests[http[q].client]) >= limiter.max_requests
                 /\ pc[q] = "idle"
                 /\ stages[q] = <<>>
                 /\ lookups[q] = 0
                 /\ commits[q] = 0
                 /\ result[q] = None
                 /\ events[q] = <<>>
                 /\ ~http[q].recorded
                 /\ \A i \in 1..Len(cache) : cache[i].by # q
          /\ http[q].recorded => (mode[q] = "query" /\ pc[q] = "done")
          /\ pc[q] # "idle" => http[q].state \in {"allowed", "responded"}
    /\ metrics.total_requests = Cardinality({q \in QueryIds : http[q].recorded})

\* A request rejected with 429 beside a request of the same client that
\* was served, stored its answer and was recorded.
C38_Witness ==
    \E q, r \in QueryIds :
        /\ http[q].status = 429
        /\ http[r].client = http[q].client
        /\ http[r].recorded
        /\ http[r].status = 200
        /\ \E i \in 1..Len(cache) : cache[i].by = r

====
